---- MODULE Spec2Model ----
(***************************************************************************)
(* Lifecycle controller of AI Runner (src/src/airunner/app.py, class App). *)
(* The model follows the one thread of control: the constructor            *)
(* (start, run_setup_wizard, run), the event loop entered by run, the      *)
(* deferred callback _post_splash_startup -> show_main_application, the    *)
(* log handler on_log_logged_signal, the SIGINT handler, and calls of the  *)
(* public methods made by the host.                                        *)
(***************************************************************************)
EXTENDS Integers, Sequences, FiniteSets, TLC

VARIABLES
    initialize_gui,                 \* App.initialize_gui (line 46)
    no_splash,                      \* App.no_splash (line 43)
    main_window_class_,             \* App.main_window_class_ (line 41): Null or "Custom"
    AIRUNNER_DISABLE_SETUP_WIZARD,  \* airunner.settings flag (line 20)
    path_settings,                  \* the PathSettings row: Null, "exists", "missing" (base_path on disk or not)
    application_settings,           \* the ApplicationSettings row: Null, "run", "skip" (run_setup_wizard field)
    path_rows,                      \* number of PathSettings rows in the store
    app_rows,                       \* number of ApplicationSettings rows in the store
    storeOps,                       \* the store operations the gate has performed
    gateCalls,                      \* number of run_setup_wizard invocations
    wizardCount,                    \* number of AppInstaller() invocations
    qapp_instances,                 \* number of QApplication instances in the process
    startCalls,                     \* number of start() invocations
    app,                            \* App.app (line 44)
    sigint_handler,                 \* whether signal.signal(SIGINT, ...) has been called
    toolkit,                        \* the kinds of toolkit interaction performed so far
    timer,                          \* the one-shot timer of line 117: "none", "scheduled", "fired"
    execCalled,                     \* whether app.exec() has been entered
    splash,                         \* App.splash (line 45): Null or "handle"
    splashVisible,                  \* the splash widget is on screen
    splashMessage,                  \* the text last given to showMessage
    splashFlushed,                  \* display_splash_screen has run app.processEvents()
    splashCreated,                  \* number of QSplashScreen objects constructed
    finishCount,                    \* number of finish() calls on the held splash
    main_window,                    \* app.main_window: Null or "window"
    windowsConstructed,             \* number of window_class(...) constructions that completed
    outcome,                        \* what became of show_main_application
    pc,                             \* position of the thread of control
    ret,                            \* where control returns when the wizard completes
    sma,                            \* position inside show_main_application: "idle", "construct"
    deferred,                       \* the running show_main_application came from _post_splash_startup
    exitStatus,                     \* process exit status, NoExit while alive
    propagated,                     \* error that left the last lifecycle method uncaught
    hostCalls,                      \* number of method calls made by the host
    interrupted,                    \* the SIGINT handler has run
    logResult                       \* what the last on_log_logged_signal call did

config == <<initialize_gui, no_splash, main_window_class_, AIRUNNER_DISABLE_SETUP_WIZARD>>
store  == <<path_settings, application_settings, path_rows, app_rows, storeOps,
           gateCalls, wizardCount>>
qt     == <<qapp_instances, startCalls, app, sigint_handler, timer, execCalled>>
splashVars == <<splash, splashVisible, splashMessage, splashFlushed, splashCreated, finishCount>>
windowVars == <<main_window, windowsConstructed, outcome>>
control == <<pc, ret, sma, deferred, exitStatus, propagated, hostCalls, interrupted>>
vars == <<config, store, qt, toolkit, splashVars, windowVars, control, logResult>>

----------------------------------------------------------------------------
(* Bounds *)
MaxHostCalls == 1       \* method calls the host makes on the controller
MaxSegments == 5        \* " - "-separated segments in a log message

(* Values *)
Null == "None"
NoExit == -1
SEP == " - "
SegmentText == [i \in 1..(MaxSegments + 1) |->
                  <<"s0", "s1", "s2", "s3", "s4", "s5", "s6", "s7">>[i]]

(* A log message as the logger formats it: n fields joined by " - ";      *)
(* field i (counted from 0, as Python indexes) is the word "s<i>".         *)
RECURSIVE Joined(_)
Joined(n) ==
    IF n = 0 THEN <<>>
    ELSE IF n = 1 THEN <<SegmentText[1]>>
    ELSE Joined(n - 1) \o <<SEP, SegmentText[n]>>
Messages == {Joined(n) : n \in 0..MaxSegments}
LoadingText == <<"Loading AI Runner">>

----------------------------------------------------------------------------
(* str.split(" - ") of line 83: the message cut at every separator; an    *)
(* empty message gives one empty segment.                                  *)
RECURSIVE split(_)
split(s) ==
    IF s = <<>> THEN << <<>> >>
    ELSE LET r == split(Tail(s)) IN
         IF Head(s) = SEP THEN << <<>> >> \o r
         ELSE << <<Head(s)>> \o Head(r) >> \o Tail(r)

Alive == pc \notin {"exited", "aborted"}

Init ==
    /\ initialize_gui \in BOOLEAN
    /\ no_splash \in BOOLEAN
    /\ main_window_class_ \in {Null, "Custom"}
    /\ AIRUNNER_DISABLE_SETUP_WIZARD \in BOOLEAN
    /\ path_settings \in {Null, "exists", "missing"}
    /\ application_settings \in {Null, "run", "skip"}
    /\ path_rows = IF path_settings = Null THEN 0 ELSE 1
    /\ app_rows = IF application_settings = Null THEN 0 ELSE 1
    /\ storeOps = {}
    /\ gateCalls = 0
    /\ wizardCount = 0
    /\ qapp_instances \in {0, 1}
    /\ startCalls = 0
    /\ app = Null
    /\ sigint_handler = FALSE
    /\ toolkit = {}
    /\ timer = "none"
    /\ execCalled = FALSE
    /\ splash = Null
    /\ splashVisible = FALSE
    /\ splashMessage = <<>>
    /\ splashFlushed = FALSE
    /\ splashCreated = 0
    /\ finishCount = 0
    /\ main_window = Null
    /\ windowsConstructed = 0
    /\ outcome = "none"
    /\ pc = "ctor"
    /\ ret = "none"
    /\ sma = "idle"
    /\ deferred = FALSE
    /\ exitStatus = NoExit
    /\ propagated = "none"
    /\ hostCalls = 0
    /\ interrupted = FALSE
    /\ logResult = [delivered |-> FALSE, short |-> FALSE, handle |-> Null,
                    error |-> "none", forwarded |-> FALSE]

----------------------------------------------------------------------------
(* start(), lines 86-93: the entry check and the SIGINT installation;    *)
(* r is where control goes when start() returns.                           *)
start(r) ==
    /\ startCalls' = startCalls + 1
    /\ IF ~initialize_gui
       THEN /\ pc' = r
            /\ UNCHANGED <<sigint_handler, toolkit, ret>>
       ELSE /\ sigint_handler' = TRUE
            /\ toolkit' = toolkit \cup {"signal"}
            /\ pc' = "start"
            /\ ret' = r

(* a start() that constructs a QApplication on every call *)
instances_after_new(n) == n + 1

(* start(), lines 99-101: QApplication.instance() is kept when it is not   *)
(* None, QApplication([]) is constructed otherwise.                        *)
instances_after_start(n) == IF n = 0 THEN 1 ELSE n

(* start(), lines 94-102: toolkit attributes, then the QApplication        *)
(* instance is looked up and created only when there is none.              *)
StartInstance ==
    /\ pc = "start"
    /\ app' = "qapp"
    /\ qapp_instances' = instances_after_start(qapp_instances)
    /\ toolkit' = toolkit \cup {"setAttribute"}
                          \cup (IF qapp_instances = 0 THEN {"instance"} ELSE {})
    /\ pc' = ret
    /\ ret' = "none"
    /\ UNCHANGED <<config, store, startCalls, sigint_handler, timer, execCalled,
                   splashVars, windowVars, sma, deferred, exitStatus, propagated,
                   hostCalls, interrupted, logResult>>

(* a constructor that goes from start() straight to run() *)
CtorStartThenRun ==
    /\ pc = "ctor"
    /\ initialize_gui
    /\ start("run")
    /\ UNCHANGED <<config, store, qapp_instances, app, timer, execCalled,
                   splashVars, windowVars, sma, deferred, exitStatus, propagated,
                   hostCalls, interrupted, logResult>>

(* __init__, lines 56-57: the constructor calls start() *)
CtorStart ==
    /\ pc = "ctor"
    /\ initialize_gui
    /\ start("gate")
    /\ UNCHANGED <<config, store, qapp_instances, app, timer, execCalled,
                   splashVars, windowVars, sma, deferred, exitStatus, propagated,
                   hostCalls, interrupted, logResult>>

(* __init__, line 56: with initialize_gui false the constructor returns *)
CtorSkip ==
    /\ pc = "ctor"
    /\ ~initialize_gui
    /\ pc' = "returned"
    /\ UNCHANGED <<config, store, qt, toolkit, splashVars, windowVars,
                   ret, sma, deferred, exitStatus, propagated, hostCalls,
                   interrupted, logResult>>

----------------------------------------------------------------------------
(* a gate that ignores the configuration flag *)
GateNeverDisabled == FALSE

(* run_setup_wizard, line 63: the early return on the configuration flag *)
GateDisabled == AIRUNNER_DISABLE_SETUP_WIZARD

(* a gate that asks for both conditions *)
ShouldRunSetupBoth(ps, as) == ps = "missing" /\ as = "run"

(* run_setup_wizard, lines 74-77: the condition that invokes AppInstaller *)
ShouldRunSetup(ps, as) == ps = "missing" \/ as = "run"

(* a gate that creates a row on every call *)
CreatesAlways(row) == TRUE

(* run_setup_wizard, lines 67 and 70: a row is created when first() gave   *)
(* None.                                                                   *)
NeedsCreate(row) == row = Null

(* a gate that swallows storage errors *)
gate_catches_all(exc) == TRUE

(* run_setup_wizard, lines 61-80, has no try block: nothing is caught *)
gate_catches(exc) == FALSE

(* a storage call of the gate raises: the error leaves run_setup_wizard *)
gate_raises(r, onError) ==
    IF gate_catches("StorageError")
    THEN /\ pc' = r
         /\ propagated' = "none"
    ELSE /\ pc' = onError
         /\ propagated' = "StorageError"

(* run_setup_wizard(), lines 61-80. r is where control goes on return,     *)
(* onError where it goes when a storage call raises: at the first read     *)
(* (line 65), or at the creation of the ApplicationSettings row (line 71)  *)
(* when the PathSettings row has already been dealt with. The defaults of  *)
(* a created row are set by the model classes, outside this file, so a     *)
(* created row may hold either value.                                      *)
run_setup_wizard(r, onError) ==
    /\ gateCalls' = gateCalls + 1
    /\ IF GateDisabled
       THEN /\ pc' = r
            /\ propagated' = "none"
            /\ UNCHANGED <<path_settings, application_settings, path_rows, app_rows,
                           storeOps, wizardCount, toolkit, ret>>
       ELSE \E errAt \in {"none", "read", "create"} :
            IF errAt = "read"
            THEN /\ storeOps' = storeOps \cup {"read_app"}
                 /\ gate_raises(r, onError)
                 /\ UNCHANGED <<path_settings, application_settings, path_rows,
                                app_rows, wizardCount, toolkit, ret>>
            ELSE \E newPath \in {"exists", "missing"}, newApp \in {"run", "skip"} :
                 LET ps == IF NeedsCreate(path_settings) THEN newPath ELSE path_settings
                     as == IF NeedsCreate(application_settings) THEN newApp
                           ELSE application_settings
                     pathOps == {"read_app", "read_path"} \cup
                         (IF NeedsCreate(path_settings) THEN {"create_path"} ELSE {})
                 IN /\ path_settings' = ps
                    /\ path_rows' = IF NeedsCreate(path_settings) THEN path_rows + 1
                                    ELSE path_rows
                    /\ IF errAt = "create" /\ NeedsCreate(application_settings)
                       THEN /\ storeOps' = storeOps \cup pathOps
                            /\ gate_raises(r, onError)
                            /\ UNCHANGED <<application_settings, app_rows,
                                           wizardCount, toolkit, ret>>
                       ELSE /\ application_settings' = as
                            /\ app_rows' = IF NeedsCreate(application_settings)
                                           THEN app_rows + 1 ELSE app_rows
                            /\ storeOps' = storeOps \cup pathOps \cup
                                 (IF NeedsCreate(application_settings)
                                  THEN {"create_app"} ELSE {})
                            /\ propagated' = "none"
                            /\ IF ShouldRunSetup(ps, as)
                               THEN /\ wizardCount' = wizardCount + 1
                                    /\ toolkit' = toolkit \cup {"wizard"}
                                    /\ pc' = "wizard"
                                    /\ ret' = r
                               ELSE /\ pc' = r
                                    /\ UNCHANGED <<wizardCount, toolkit, ret>>

(* __init__, line 58 *)
CtorRunSetupWizard ==
    /\ pc = "gate"
    /\ run_setup_wizard("run", "aborted")
    /\ UNCHANGED <<config, qt, splashVars, windowVars, sma, deferred,
                   exitStatus, hostCalls, interrupted, logResult>>

(* line 80: AppInstaller() blocks the caller until the wizard is done *)
WizardReturns ==
    /\ pc = "wizard"
    /\ pc' = ret
    /\ ret' = "none"
    /\ UNCHANGED <<config, store, qt, toolkit, splashVars, windowVars, sma,
                   deferred, exitStatus, propagated, hostCalls, interrupted,
                   logResult>>

----------------------------------------------------------------------------
(* run(), lines 114-115 with display_splash_screen lines 148-192: the      *)
(* splash is built, shown and given its first message. An empty screen     *)
(* list makes screens[0] raise, which leaves the constructor.              *)
RunShowSplash ==
    /\ pc = "run"
    /\ initialize_gui
    /\ ~no_splash /\ splash = Null
    /\ \E hasScreen \in BOOLEAN :
         IF hasScreen
         THEN /\ splashCreated' = splashCreated + 1
              /\ splashVisible' = TRUE
              /\ splashMessage' = LoadingText
              /\ toolkit' = toolkit \cup {"screens", "splash"}
              /\ pc' = "flush"
              /\ UNCHANGED propagated
         ELSE /\ toolkit' = toolkit \cup {"screens"}
              /\ pc' = "aborted"
              /\ propagated' = "IndexError"
              /\ UNCHANGED <<splashCreated, splashVisible, splashMessage>>
    /\ UNCHANGED <<config, store, qt, splash, splashFlushed, finishCount,
                   windowVars, ret, sma, deferred, exitStatus, hostCalls,
                   interrupted, logResult>>

(* display_splash_screen lines 193-194 and the assignment of line 115 *)
RunFlush ==
    /\ pc = "flush"
    /\ splashFlushed' = TRUE
    /\ splash' = "handle"
    /\ toolkit' = toolkit \cup {"processEvents"}
    /\ pc' = "schedule"
    /\ UNCHANGED <<config, store, qt, splashVisible, splashMessage, splashCreated,
                   finishCount, windowVars, ret, sma, deferred, exitStatus,
                   propagated, hostCalls, interrupted, logResult>>

(* run(), line 114 when the splash is suppressed or already held *)
RunNoSplash ==
    /\ pc = "run"
    /\ initialize_gui
    /\ ~(~no_splash /\ splash = Null)
    /\ pc' = "schedule"
    /\ UNCHANGED <<config, store, qt, toolkit, splashVars, windowVars, ret, sma,
                   deferred, exitStatus, propagated, hostCalls, interrupted,
                   logResult>>

(* run(), line 117: QTimer.singleShot(50, self._post_splash_startup) *)
RunSchedule ==
    /\ pc = "schedule"
    /\ sma = "idle"
    /\ timer' = "scheduled"
    /\ toolkit' = toolkit \cup {"timer"}
    /\ pc' = "enter_exec"
    /\ UNCHANGED <<config, store, qapp_instances, startCalls, app, sigint_handler,
                   execCalled,
                   splashVars, windowVars, ret, sma, deferred, exitStatus,
                   propagated, hostCalls, interrupted, logResult>>

(* run(), line 118: app.exec() starts processing events *)
RunExec ==
    /\ pc = "enter_exec"
    /\ sma = "idle"
    /\ execCalled' = TRUE
    /\ toolkit' = toolkit \cup {"exec"}
    /\ pc' = "exec"
    /\ UNCHANGED <<config, store, qapp_instances, startCalls, app, sigint_handler,
                   timer,
                   splashVars, windowVars, ret, sma, deferred, exitStatus,
                   propagated, hostCalls, interrupted, logResult>>

(* run(), line 118: exec() returns the loop's code and sys.exit passes it on *)
LoopExit ==
    /\ pc = "exec"
    /\ sma = "idle"
    /\ \E code \in {0, 1} : exitStatus' = code
    /\ pc' = "exited"
    /\ UNCHANGED <<config, store, qt, toolkit, splashVars, windowVars, ret, sma,
                   deferred, propagated, hostCalls, interrupted, logResult>>

----------------------------------------------------------------------------
(* Python's exception classes that derive from Exception; SystemExit does  *)
(* not.                                                                    *)
ExceptionSubclasses ==
    {"TypeError", "RuntimeError", "ImportError", "AttributeError", "IndexError"}
WindowErrors == {"TypeError", "RuntimeError"}

(* an except clause that names one class only *)
except_ImportError(exc) == exc = "ImportError"

(* show_main_application, line 228: except Exception *)
except_Exception(exc) == exc \in ExceptionSubclasses

(* show_main_application, lines 231-235: sys.exit with a message string    *)
(* ends the process with status 1.                                         *)
FatalExitStatus == 1

(* a timer that is never dispatched *)
TimerNeverDue == FALSE

(* the callback called at once instead of handed to the timer *)
TimerDueAtOnce == timer = "scheduled"

(* run(), lines 117-118: the one-shot timer is dispatched by the event     *)
(* loop that exec() runs.                                                  *)
TimerDue == timer = "scheduled" /\ pc = "exec"

(* show_main_application, lines 212-222: entry check, resolution of the    *)
(* window type (the import of line 217 is outside the try block, so its    *)
(* error leaves the method), then finish() on the held splash.             *)
show_main_application(isDeferred) ==
    IF ~initialize_gui
    THEN /\ propagated' = "none"
         /\ UNCHANGED <<toolkit, outcome, sma, deferred, finishCount, splashVisible>>
    ELSE \E importOK \in BOOLEAN :
         IF main_window_class_ = Null /\ ~importOK
         THEN /\ propagated' = "ImportError"
              /\ outcome' = "resolve_failed"
              /\ UNCHANGED <<toolkit, sma, deferred, finishCount, splashVisible>>
         ELSE /\ IF splash # Null
                 THEN /\ finishCount' = finishCount + 1
                      /\ splashVisible' = FALSE
                      /\ toolkit' = toolkit \cup {"finish"}
                 ELSE UNCHANGED <<finishCount, splashVisible, toolkit>>
              /\ sma' = "construct"
              /\ deferred' = isDeferred
              /\ propagated' = "none"
              /\ UNCHANGED outcome

(* _post_splash_startup, lines 120-121, run by the timer *)
TimerFire ==
    /\ TimerDue
    /\ sma = "idle"
    /\ timer' = "fired"
    /\ show_main_application(TRUE)
    /\ UNCHANGED <<config, store, qapp_instances, startCalls, app, sigint_handler,
                   execCalled,
                   splash, splashMessage, splashFlushed, splashCreated,
                   main_window, windowsConstructed, pc, ret, exitStatus,
                   hostCalls, interrupted, logResult>>

(* show_main_application, lines 224-235: construct the window, attach it   *)
(* to the event-loop instance, raise it; an error at any of the three is   *)
(* matched against the except clause.                                      *)
ConstructWindow ==
    /\ sma = "construct"
    /\ Alive
    /\ \E stage \in {"ok", "construct", "assign", "raise_"}, exc \in WindowErrors :
         /\ windowsConstructed' =
                IF stage = "construct" THEN windowsConstructed
                ELSE windowsConstructed + 1
         /\ main_window' = IF stage \in {"ok", "raise_"} THEN "window" ELSE main_window
         /\ toolkit' = toolkit \cup {"window"}
         /\ sma' = "idle"
         /\ IF stage = "ok"
            THEN /\ outcome' = "shown"
                 /\ propagated' = "none"
                 /\ UNCHANGED <<pc, exitStatus>>
            ELSE /\ outcome' = "construct_failed"
                 /\ IF except_Exception(exc)
                    THEN /\ exitStatus' = FatalExitStatus
                         /\ pc' = "exited"
                         /\ propagated' = "none"
                    ELSE /\ propagated' = exc
                         /\ UNCHANGED <<pc, exitStatus>>
    /\ UNCHANGED <<config, store, qt, splashVars, ret, deferred, hostCalls,
                   interrupted, logResult>>

----------------------------------------------------------------------------
(* on_log_logged_signal line 84: message[4], the fifth segment *)
message_4(segs) == segs[5]

HandleState ==
    IF splash = Null THEN Null
    ELSE IF finishCount > 0 THEN "dismissed" ELSE "active"

(* on_log_logged_signal, lines 82-84, with update_splash_message, lines    *)
(* 196-203: the index is evaluated before the call, and showMessage is     *)
(* called on whatever self.splash holds.                                   *)
on_log_logged_signal(message) ==
    LET segs == split(message)
        base == [delivered |-> TRUE, short |-> Len(segs) < 5, handle |-> HandleState,
                 error |-> "none", forwarded |-> FALSE]
    IN IF Len(segs) < 5
       THEN /\ logResult' = [base EXCEPT !.error = "IndexError"]
            /\ UNCHANGED splashMessage
       ELSE IF splash = Null
       THEN /\ logResult' = [base EXCEPT !.error = "AttributeError"]
            /\ UNCHANGED splashMessage
       ELSE /\ logResult' = [base EXCEPT !.forwarded = TRUE]
            /\ splashMessage' = message_4(segs)

(* a LOG_LOGGED_SIGNAL record is delivered (registered at line 54) *)
LogRecord ==
    /\ Alive
    /\ \E message \in Messages : on_log_logged_signal(message)
    /\ UNCHANGED <<config, store, qt, toolkit, splash, splashVisible, splashFlushed,
                   splashCreated, finishCount, windowVars, control>>

----------------------------------------------------------------------------
(* an except branch that reports the failure in the exit status *)
signal_handler_exit_failing(raised) == IF raised THEN 1 ELSE 0

(* signal_handler, lines 134-140: sys.exit(0) after quit, and sys.exit(0)  *)
(* again in the except branch.                                             *)
signal_handler_exit(raised) == IF raised THEN 0 ELSE 0

(* SIGINT arrives after line 93 has installed the handler. With no         *)
(* QApplication instance, instance() is None and quit() raises. The        *)
(* SystemExit of the handler passes the except clause of any frame it      *)
(* interrupts; only show_main_application has one around running code.     *)
Sigint ==
    /\ sigint_handler
    /\ Alive
    /\ \E quitRaises \in BOOLEAN :
         LET code == signal_handler_exit(qapp_instances = 0 \/ quitRaises)
         IN exitStatus' = IF sma = "construct" /\ except_Exception("SystemExit")
                          THEN FatalExitStatus ELSE code
    /\ interrupted' = TRUE
    /\ pc' = "exited"
    /\ UNCHANGED <<config, store, qt, toolkit, splashVars, windowVars, ret, sma,
                   deferred, propagated, hostCalls, logResult>>

----------------------------------------------------------------------------
(* The host calls a public method: after the constructor has returned, or  *)
(* from a callback while the event loop runs.                              *)
HostMayCall ==
    /\ pc \in {"returned", "exec"}
    /\ sma = "idle"
    /\ hostCalls < MaxHostCalls

HostStart ==
    /\ HostMayCall
    /\ hostCalls' = hostCalls + 1
    /\ start(pc)
    /\ propagated' = "none"
    /\ UNCHANGED <<config, store, qapp_instances, app, timer, execCalled,
                   splashVars, windowVars, sma, deferred, exitStatus,
                   interrupted, logResult>>

HostRunSetupWizard ==
    /\ HostMayCall
    /\ hostCalls' = hostCalls + 1
    /\ run_setup_wizard(pc, pc)
    /\ UNCHANGED <<config, qt, splashVars, windowVars, sma, deferred,
                   exitStatus, interrupted, logResult>>

(* run(), line 118, entered while the loop already runs: Qt refuses the    *)
(* nested exec() and returns -1, and sys.exit(-1) ends the process with    *)
(* status 255.                                                             *)
NestedExecStatus == 255

(* run() called once more, lines 104-118: line 111 returns when the GUI is *)
(* disabled; otherwise the splash is shown if none is held and wanted, the *)
(* timer is scheduled again, and sys.exit(self.app.exec()) ends the        *)
(* process before the loop can dispatch it.                                *)
HostRun ==
    /\ HostMayCall
    /\ hostCalls' = hostCalls + 1
    /\ propagated' = "none"
    /\ IF ~initialize_gui
       THEN UNCHANGED <<timer, toolkit, splashVars, pc, exitStatus>>
       ELSE /\ IF ~no_splash /\ splash = Null
               THEN /\ splashCreated' = splashCreated + 1
                    /\ splash' = "handle"
                    /\ splashVisible' = TRUE
                    /\ splashMessage' = LoadingText
                    /\ splashFlushed' = TRUE
                    /\ UNCHANGED finishCount
               ELSE UNCHANGED splashVars
            /\ timer' = "scheduled"
            /\ toolkit' = toolkit \cup {"timer", "exec"}
                  \cup (IF ~no_splash /\ splash = Null
                        THEN {"screens", "splash", "processEvents"} ELSE {})
            /\ exitStatus' = NestedExecStatus
            /\ pc' = "exited"
    /\ UNCHANGED <<config, store, qapp_instances, startCalls, app, sigint_handler,
                   execCalled, windowVars, ret, sma, deferred, interrupted,
                   logResult>>

(* a display_splash_screen without the no_splash check *)
never_suppressed == FALSE

(* display_splash_screen, lines 148-149: returns None when no_splash *)
splash_suppressed == no_splash

(* display_splash_screen(a), lines 142-194, called directly: the handle    *)
(* goes back to the caller and self.splash is not assigned. Without a      *)
(* QApplication the screen list is empty and screens[0] raises; with       *)
(* a = None, a.processEvents() raises after the splash is shown.           *)
HostDisplaySplash ==
    /\ HostMayCall
    /\ hostCalls' = hostCalls + 1
    /\ \E a \in {app, IF qapp_instances > 0 THEN "qapp" ELSE app},
          hasScreen \in BOOLEAN :
         IF splash_suppressed
         THEN /\ propagated' = "none"
              /\ UNCHANGED <<toolkit, splashCreated>>
         ELSE IF qapp_instances = 0 \/ ~hasScreen
         THEN /\ propagated' = "IndexError"
              /\ toolkit' = toolkit \cup {"screens"}
              /\ UNCHANGED splashCreated
         ELSE /\ splashCreated' = splashCreated + 1
              /\ IF a = Null
                 THEN /\ propagated' = "AttributeError"
                      /\ toolkit' = toolkit \cup {"screens", "splash"}
                 ELSE /\ propagated' = "none"
                      /\ toolkit' = toolkit \cup {"screens", "splash", "processEvents"}
    /\ UNCHANGED <<config, store, qt, splash, splashVisible, splashMessage,
                   splashFlushed, finishCount, windowVars, pc, ret, sma, deferred,
                   exitStatus, interrupted, logResult>>

HostShowMainApplication ==
    /\ HostMayCall
    /\ hostCalls' = hostCalls + 1
    /\ show_main_application(FALSE)
    /\ UNCHANGED <<config, store, qt, splash, splashMessage, splashFlushed,
                   splashCreated, main_window, windowsConstructed, pc, ret,
                   exitStatus, interrupted, logResult>>

Next ==
    \/ CtorStart
    \/ CtorSkip
    \/ StartInstance
    \/ CtorRunSetupWizard
    \/ WizardReturns
    \/ RunShowSplash
    \/ RunFlush
    \/ RunNoSplash
    \/ RunSchedule
    \/ RunExec
    \/ LoopExit
    \/ TimerFire
    \/ ConstructWindow
    \/ LogRecord
    \/ Sigint
    \/ HostStart
    \/ HostRunSetupWizard
    \/ HostRun
    \/ HostDisplaySplash
    \/ HostShowMainApplication

Spec == Init /\ [][Next]_vars

(* The constructor is straight-line code and goes on to its next           *)
(* statement; the wizard is taken to return; the running event loop        *)
(* dispatches a due timer; a started window construction ends. Log         *)
(* records, SIGINT, the loop's end and the host's calls may or may not     *)
(* happen.                                                                 *)
FairSpec ==
    /\ Init /\ [][Next]_vars
    /\ WF_vars(CtorStart) /\ WF_vars(CtorSkip) /\ WF_vars(StartInstance)
    /\ WF_vars(CtorRunSetupWizard) /\ WF_vars(WizardReturns)
    /\ WF_vars(RunShowSplash) /\ WF_vars(RunFlush) /\ WF_vars(RunNoSplash)
    /\ WF_vars(RunSchedule) /\ WF_vars(RunExec)
    /\ WF_vars(TimerFire) /\ WF_vars(ConstructWindow)

----------------------------------------------------------------------------
(* C1: the deferred callback has fired only if exec() has been entered,    *)
(* and, with the splash enabled, only after display_splash_screen has      *)
(* shown the splash, flushed the pending events and returned the handle.   *)
C1_DeferredAfterLoopAndSplash ==
    timer = "fired" =>
        /\ execCalled
        /\ ~no_splash => (splashCreated > 0 /\ splashFlushed /\ splash # Null)

C1_Witness ==
    /\ timer = "fired" /\ deferred /\ sma = "construct"
    /\ ~no_splash /\ splashFlushed

(* C2: with initialize_gui false no lifecycle method touches the toolkit   *)
(* (signal handler, event-loop instance, wizard, splash, timer, window)    *)
(* and none raises.                                                        *)
C2_NoToolkitWhenGuiDisabled ==
    ~initialize_gui =>
        /\ toolkit = {}
        /\ wizardCount = 0
        /\ splashCreated = 0
        /\ propagated = "none"

(* C3: an error while constructing, attaching or raising the main window   *)
(* ends the process with a nonzero status; it does not leave the callback  *)
(* and the event loop does not go on without a window.                     *)
C3_ConstructionFailureIsFatal ==
    outcome = "construct_failed" =>
        /\ pc = "exited"
        /\ exitStatus # NoExit /\ exitStatus # 0
        /\ propagated = "none"

C3_Witness ==
    outcome = "construct_failed" /\ deferred /\ timer = "fired" /\ pc = "exited"

(* C4: an error while resolving the default window type takes the same     *)
(* fatal path: nonzero exit, nothing propagating into the event loop.      *)
C4_ResolutionFailureIsFatal ==
    outcome = "resolve_failed" =>
        /\ pc = "exited"
        /\ exitStatus # NoExit /\ exitStatus # 0
        /\ propagated = "none"

(* C5: a held splash handle is finished at most once, and exactly once as  *)
(* soon as window construction has completed or failed.                    *)
C5_SplashDismissedExactlyOnce ==
    splash # Null =>
        /\ finishCount <= 1
        /\ outcome \in {"shown", "construct_failed"} => finishCount = 1

(* C6: a well-formed log record delivered while no splash handle is held   *)
(* does nothing: no error, nothing forwarded.                              *)
C6_LogWithoutHandleIsNoOp ==
    (logResult.delivered /\ ~logResult.short /\ logResult.handle = Null) =>
        (logResult.error = "none" /\ ~logResult.forwarded)

(* C7: a log record delivered after the splash has been finished forwards  *)
(* no message to it.                                                       *)
C7_LogAfterDismissalIsNoOp ==
    (logResult.delivered /\ logResult.handle = "dismissed") =>
        ~logResult.forwarded

(* C8: a log record with fewer than 5 segments raises no error.            *)
C8_ShortLogDoesNotRaise ==
    (logResult.delivered /\ logResult.short) => logResult.error = "none"

(* C9: once the SIGINT handler has run, the process has terminated with    *)
(* exit code 0, whether or not quitting the event loop raised.             *)
C9_InterruptExitsZero ==
    interrupted => (pc = "exited" /\ exitStatus = 0)

C9_Witness ==
    interrupted /\ qapp_instances = 0 /\ pc = "exited"

(* C10: with AIRUNNER_DISABLE_SETUP_WIZARD set, no step invokes the wizard *)
(* or reads, creates or changes a settings record.                         *)
C10_DisabledGateLeavesStore ==
    [][AIRUNNER_DISABLE_SETUP_WIZARD =>
          /\ wizardCount' = wizardCount
          /\ storeOps' = storeOps
          /\ path_settings' = path_settings
          /\ application_settings' = application_settings]_vars

C10_Witness ==
    /\ AIRUNNER_DISABLE_SETUP_WIZARD /\ gateCalls > 0
    /\ path_settings = Null /\ application_settings = Null

(* C11: with the flag unset, a step creates a PathSettings row only when   *)
(* there was none, and likewise an ApplicationSettings row; a row that     *)
(* exists keeps its contents and is never removed; a gate call that        *)
(* returns leaves exactly one row of each kind; and when the gate created  *)
(* a row, the wizard decision follows the contents of the created rows.    *)
C11_GateCreatesOnlyAbsentRows ==
    [][~AIRUNNER_DISABLE_SETUP_WIZARD =>
          /\ path_rows' >= path_rows /\ app_rows' >= app_rows
          /\ path_rows' > path_rows =>
                (path_rows = 0 /\ path_rows' = 1 /\ gateCalls' = gateCalls + 1)
          /\ app_rows' > app_rows =>
                (app_rows = 0 /\ app_rows' = 1 /\ gateCalls' = gateCalls + 1)
          /\ path_settings # Null => path_settings' = path_settings
          /\ application_settings # Null => application_settings' = application_settings
          /\ (gateCalls' = gateCalls + 1 /\ propagated' = "none") =>
                (path_rows' = 1 /\ app_rows' = 1)
          /\ (gateCalls' = gateCalls + 1 /\ propagated' = "none"
                 /\ (path_rows = 0 \/ app_rows = 0)) =>
                (wizardCount' = wizardCount + 1 <=>
                   (path_settings' = "missing" \/ application_settings' = "run"))]_vars

C11_Witness ==
    /\ ~AIRUNNER_DISABLE_SETUP_WIZARD /\ gateCalls = 2
    /\ {"create_path", "create_app"} \subseteq storeOps
    /\ path_rows = 1 /\ app_rows = 1

(* C12: with the flag unset, a gate call that returns invokes the wizard   *)
(* exactly when base_path does not exist or run_setup_wizard is true, and  *)
(* the wizard is invoked by nothing else.                                  *)
C12_WizardIffMissingPathOrFlag ==
    [][/\ wizardCount' # wizardCount =>
            (wizardCount' = wizardCount + 1 /\ gateCalls' = gateCalls + 1
               /\ pc' = "wizard")
       /\ (gateCalls' = gateCalls + 1 /\ ~AIRUNNER_DISABLE_SETUP_WIZARD
              /\ propagated' = "none") =>
            (wizardCount' = wizardCount + 1 <=>
               (path_settings' = "missing" \/ application_settings' = "run"))]_vars

C12_Witness ==
    /\ ~AIRUNNER_DISABLE_SETUP_WIZARD /\ wizardCount = 1 /\ pc = "wizard"
    /\ path_settings = "missing" /\ application_settings = "skip"

(* C13: the process never holds more than one QApplication instance; an    *)
(* instance is constructed only by a step that found none; and a           *)
(* controller that has been started holds the one instance.                *)
C13_AtMostOneEventLoopInstance ==
    /\ qapp_instances <= 1
    /\ app # Null => (app = "qapp" /\ qapp_instances = 1)

C13_Witness ==
    startCalls = 2 /\ pc = "exec" /\ app = "qapp" /\ qapp_instances = 1

(* C14: with no_splash and initialize_gui both true, no splash is ever     *)
(* built and self.splash stays None, up to and including the state with    *)
(* the main window shown.                                                  *)
C14_NoSplashNeverCreatesHandle ==
    (no_splash /\ initialize_gui) =>
        /\ splash = Null
        /\ splashCreated = 0
        /\ ~splashVisible
        /\ "splash" \notin toolkit

C14_Witness ==
    /\ no_splash /\ initialize_gui
    /\ outcome = "shown" /\ main_window = "window" /\ deferred
    /\ splash = Null

(* C15: the held splash has been finished only if a window construction    *)
(* has completed or failed.                                                *)
C15_SplashDismissedAfterConstruction ==
    finishCount > 0 => (windowsConstructed > 0 \/ outcome = "construct_failed")

(* C16: in a controller with the GUI enabled the stages come in order:     *)
(* the event-loop instance only after the interrupt handler, the gate only *)
(* after the instance, and the splash, the timer and the event loop only   *)
(* after the constructor's gate call and its wizard have completed; the    *)
(* loop only after the timer, the window only inside the loop; and a       *)
(* stage once reached is not left.                                         *)
WizardOfConstructorPending ==
    \/ pc \in {"ctor", "gate"}
    \/ pc \in {"start", "wizard"} /\ ret \in {"gate", "run"}

StageOrder ==
    /\ app # Null => sigint_handler
    /\ gateCalls > 0 => app # Null
    /\ (splashCreated > 0 \/ timer # "none" \/ execCalled) =>
          (gateCalls > 0 /\ ~WizardOfConstructorPending)
    /\ WizardOfConstructorPending =>
          (splashCreated = 0 /\ splash = Null /\ timer = "none" /\ ~execCalled
             /\ main_window = Null /\ outcome = "none")
    /\ (timer # "none" /\ ~no_splash) => (splashFlushed /\ splash # Null)
    /\ execCalled => timer # "none"
    /\ (main_window # Null \/ windowsConstructed > 0) => execCalled

C16_StagesInOrder ==
    [][initialize_gui =>
          /\ StageOrder'
          /\ sigint_handler => sigint_handler'
          /\ app # Null => app' # Null
          /\ gateCalls' >= gateCalls
          /\ splash # Null => splash' # Null
          /\ timer # "none" => timer' # "none"
          /\ execCalled => execCalled'
          /\ main_window # Null => main_window' # Null]_vars

C16_Witness ==
    /\ initialize_gui /\ ~no_splash /\ wizardCount = 1 /\ hostCalls = 0
    /\ outcome = "shown" /\ main_window = "window"

(* C17: when a storage call of the constructor's gate has raised, the      *)
(* error has left the constructor as it was raised and nothing of the      *)
(* startup after the gate has happened: no wizard, no splash, no timer,    *)
(* no event loop, no window.                                               *)
GateOfConstructorRaised ==
    /\ initialize_gui /\ hostCalls = 0 /\ gateCalls = 1
    /\ ~AIRUNNER_DISABLE_SETUP_WIZARD
    /\ app_rows = 0

C17_StorageErrorAbortsStartup ==
    /\ (pc = "aborted" /\ propagated = "StorageError") =>
          /\ wizardCount = 0 /\ "wizard" \notin toolkit
          /\ splashCreated = 0 /\ splash = Null
          /\ timer = "none" /\ ~execCalled
          /\ main_window = Null /\ windowsConstructed = 0
          /\ exitStatus = NoExit
    /\ GateOfConstructorRaised => (pc = "aborted" /\ propagated = "StorageError")

C17_Witness ==
    /\ pc = "aborted" /\ propagated = "StorageError"
    /\ "create_path" \in storeOps /\ app_rows = 0

(* C19: at most one main window is ever constructed in the process, also   *)
(* when show_main_application or run is invoked again.                     *)
C19_AtMostOneMainWindow ==
    windowsConstructed <= 1

(* The main window is constructed, attached to the event-loop instance and *)
(* raised, and the splash, if one is held, has been finished.              *)
MainWindowShown ==
    /\ outcome = "shown" /\ main_window = "window" /\ windowsConstructed >= 1
    /\ splash # Null => (finishCount >= 1 /\ ~splashVisible)

(* What the claim sets aside: an interrupt, a failure to resolve or        *)
(* construct the window, and the end of the process or of its event loop.  *)
SetAside ==
    \/ interrupted
    \/ outcome \in {"construct_failed", "resolve_failed"}
    \/ pc = "exited"

====
